---- MODULE Spec2Model ----
(* A model of go.nhat.io/exec (src/exec.go): a chain of Cmd values linked by  *)
(* Next, built by CommandContext/Pipe/setupCmd and driven by the methods       *)
(* Start, Wait and Run.  One controlling goroutine drives a chain, so every    *)
(* exported call is one step; the calls it makes on other stages, the calls it *)
(* makes on spans, on the closer and on os/exec are part of that step and are  *)
(* written, in program order, to `trace`.                                      *)
EXTENDS Integers, Sequences, FiniteSets, TLC

\* ---------------------------------------------------------------- bounds
MaxStages == 3
MaxCalls == 2
\* the items the head's process writes, and the items a pipe of the operating
\* system holds (with the buffers of the goroutines copying into and out of it)
MaxData == 4
MaxPipeCap == 1

Stages == 1..MaxStages
\* the exit codes of a process: success and one failure
ExitCodes == {0, 1}

\* ---------------------------------------------------------------- errors
Err(kind, stage, code) == [kind |-> kind, stage |-> stage, code |-> code]
Nil == Err("nil", 0, 0)
ErrAlreadyStarted == Err("exec: already started", 0, 0)
ErrNotStarted == Err("exec: not started", 0, 0)
ErrAlreadyWaited == Err("exec: Wait was already called", 0, 0)
\* exec.ErrNotFound as wrapped by exec.Command for the name of stage k
ErrNotFound(k) == Err("ErrNotFound", k, 0)
\* what os/exec returns when the process of stage k cannot be spawned
SpawnError(k) == Err("spawn", k, 0)
\* *exec.ExitError of stage k: "exit status <code>"
ExitError(k, code) == Err("exit status", k, code)
\* an error of the goroutines copying stage k's stdin, stdout or stderr
CopyError(k) == Err("io", k, 0)

\* ---------------------------------------------------------------- state
VARIABLES
    built,     \* CommandContext has returned the head
    n,         \* number of stages of the chain (0 before construction)
    cmd,       \* cmd[i]: the fields of the i-th Cmd of the chain
    spans,     \* spans[s]: the calls made on the s-th span the tracer opened
    closed,    \* closed[i]: number of Close calls on stage i's closer
    spawned,   \* spawned[i]: number of processes os/exec spawned for stage i
    waited,    \* waited[i]: number of os/exec Wait calls made for stage i
    argv,      \* argv[i]: the argument list of the process spawned for stage i
    trace,     \* the events of the most recent exported call, in program order
    lastCall,  \* the most recent exported call
    ret,       \* what it returned
    calls,     \* number of exported calls made so far
    \* one Run on the head, step by step, with the processes and the copying
    \* goroutines running beside the goroutine that called Run
    ctl,        \* where the goroutine that called Run is
    proc,       \* proc[i]: the process of stage i and its exit code
    left,       \* items the head's process has still to write
    stdinBuf,   \* stdinBuf[i]: items in the pipe to the stdin of process i
    stdoutBuf,  \* stdoutBuf[i]: items in the pipe from the stdout of process i
    pipeClosed, \* pipeClosed[i]: the write end of stage i's io.Pipe is closed
    pipeCap     \* the capacity of a pipe of the operating system

callVars == <<built, n, cmd, spans, closed, spawned, waited, argv, trace, lastCall, ret, calls>>
flowVars == <<ctl, proc, left, stdinBuf, stdoutBuf, pipeClosed, pipeCap>>
vars == <<callVars, flowVars>>

\* Cmd.Next: the index of the next stage, 0 for nil
NextOf(len, i) == IF i < len THEN i + 1 ELSE 0

\* io.Reader / io.Writer values bound to Stdin / Stdout
NoIO == [kind |-> "nil", id |-> 0]
CallerStdout == [kind |-> "callerStdout", id |-> 0]
PipeIn(i) == [kind |-> "pIn", id |-> i]
PipeOut(i) == [kind |-> "pOut", id |-> i]
NopCloser == [kind |-> "NopCloser", id |-> 0]

\* the Cmd that exec.CommandContext(ctx, name) and the literal of
\* CommandContext build, before any option is applied; Path is the absolute
\* path LookPath found for the name of stage k, or the name itself; Args is
\* the argument list, argument zero first; Next is the index of the next Cmd
\* (0: nil); redact is the transform of the argument list for telemetry
NewCmd(k, resolves) ==
    [Path |-> [abs |-> resolves, name |-> k],
     Err |-> IF resolves THEN Nil ELSE ErrNotFound(k),
     Args |-> <<"path">>,
     Next |-> 0,
     Process |-> FALSE,
     ProcessState |-> <<>>,
     ctx |-> 0,
     Env |-> <<>>,
     Stdin |-> NoIO,
     Stdout |-> NoIO,
     Stderr |-> <<>>,
     closer |-> NopCloser,
     tracer |-> "noop",
     logger |-> "noop",
     redact |-> "none"]

\* the world a call works on
World == [len |-> n, cmd |-> cmd, spans |-> spans, closed |-> closed,
          spawned |-> spawned, waited |-> waited, argv |-> argv, trace |-> <<>>]

Ev(name, stage, span, code, err) ==
    [ev |-> name, stage |-> stage, span |-> span, code |-> code, err |-> err]

Emit(w, e) == [w EXCEPT !.trace = Append(@, e)]

\* ---------------------------------------------------------------- inputs
\* What the operating system does in one call: whether the process of a stage
\* can be spawned, and how its os/exec Wait ends (exit code; an error of the
\* copying goroutines).  A call asks nothing more of the operating system once
\* a spawn or a wait has failed (Start returns at exec.go:98, Wait at
\* exec.go:152 or without waiting on the next stage, exec.go:156-163), so the
\* inputs with at most one failure are all the inputs a call can tell apart.
FailedOutcomes == { [code |-> c, io |-> FALSE] : c \in ExitCodes \ {0} } \cup { [code |-> 0, io |-> TRUE] }
DefaultOutcome == [code |-> 0, io |-> FALSE]
NoFailure == [spawn |-> [k \in Stages |-> TRUE], out |-> [k \in Stages |-> DefaultOutcome]]
Oracles(starts, waits) ==
    {NoFailure}
    \cup { [NoFailure EXCEPT !.spawn[k] = FALSE] : k \in starts }
    \cup { [NoFailure EXCEPT !.out[k] = o] : k \in waits, o \in FailedOutcomes }

\* ---------------------------------------------------------------- spans
\* trace.Tracer.Start(ctx, "exec:run", ...): a new span, child of the span ctx
\* carries (0: none); its id is its index in spans
NewSpan(stage, parent) ==
    [stage |-> stage, parent |-> parent, ended |-> 0, status |-> "Unset",
     msg |-> Nil, exit |-> <<>>, errors |-> <<>>, args |-> <<>>]

\* a transform of an argument list: "none" is no transform, "mask" keeps
\* argument zero and hides the others, "nil" returns no argument at all
Redactions == {"mask", "nil"}
Redact(f, args) ==
    IF f = "mask" THEN [j \in 1..Len(args) |-> IF j = 1 THEN args[1] ELSE "***"]
    ELSE IF f = "nil" THEN <<>>
    ELSE args

\* the span attribute recording the argument list as it is
SpanArgs_Untransformed(c) == c.Args

\* the value of the span attribute "exec.args" of a Cmd: its argument list
\* after the redaction transform
SpanArgs(c) == Redact(c.redact, c.Args)

TracerStart(w, i) ==
    LET s == Len(w.spans) + 1
        sp == [NewSpan(i, w.cmd[i].ctx) EXCEPT !.args = SpanArgs(w.cmd[i])]
    IN Emit([w EXCEPT !.spans = Append(@, sp)],
            Ev("tracer.Start", i, s, 0, Nil))

\* the calls on a span; trace.SpanFromContext of a context without a span is a
\* span whose methods do nothing (s = 0)
SpanEnd(w, s) ==
    IF s = 0 THEN w
    ELSE Emit([w EXCEPT !.spans[s].ended = @ + 1], Ev("span.End", w.spans[s].stage, s, 0, Nil))

SpanSetStatus(w, s, code, msg) ==
    IF s = 0 THEN w
    ELSE Emit([w EXCEPT !.spans[s].status = code, !.spans[s].msg = msg],
              Ev("span.SetStatus." \o code, w.spans[s].stage, s, 0, msg))

SpanRecordError(w, s, e) ==
    IF s = 0 THEN w
    ELSE Emit([w EXCEPT !.spans[s].errors = Append(@, e)],
              Ev("span.RecordError", w.spans[s].stage, s, 0, e))

SpanSetExitCode(w, s, code) ==
    IF s = 0 THEN w
    ELSE Emit([w EXCEPT !.spans[s].exit = Append(@, code)],
              Ev("span.SetAttributes", w.spans[s].stage, s, code, Nil))

\* (*os.ProcessState).ExitCode(): -1 for a nil ProcessState
ExitCodeOf(ps) == IF ps = <<>> THEN -1 ELSE ps[1]

\* ---------------------------------------------------------------- os/exec
\* (*exec.Cmd).Start as called at exec.go:93: the deferred lookup error if
\* there is one, else the spawn; Process is set on success only
OsStart(w, i, orc) ==
    IF w.cmd[i].Err # Nil
    THEN [w |-> Emit(w, Ev("Cmd.Start", i, 0, 0, w.cmd[i].Err)), ret |-> w.cmd[i].Err]
    ELSE IF ~orc.spawn[i]
    THEN [w |-> Emit(w, Ev("Cmd.Start", i, 0, 0, SpawnError(i))), ret |-> SpawnError(i)]
    ELSE [w |-> Emit([w EXCEPT !.cmd[i].Process = TRUE, !.spawned[i] = @ + 1,
                              !.argv[i] = w.cmd[i].Args],
                     Ev("Cmd.Start", i, 0, 0, Nil)),
          ret |-> Nil]

\* (*exec.Cmd).Wait as called at exec.go:169: ProcessState is set; the error is
\* the ExitError of a non-zero exit, else the error of the copying goroutines
OsWaitError(i, out) ==
    IF out.code # 0 THEN ExitError(i, out.code)
    ELSE IF out.io THEN CopyError(i)
    ELSE Nil

OsWait(w, i, orc) ==
    LET e == OsWaitError(i, orc.out[i])
    IN [w |-> Emit([w EXCEPT !.cmd[i].ProcessState = <<orc.out[i].code>>,
                             !.waited[i] = @ + 1],
                   Ev("Cmd.Wait", i, 0, orc.out[i].code, e)),
        ret |-> e]

\* ---------------------------------------------------------------- Cmd.Start
\* exec.go:77-91: the stderr tee, the span context, the two environment
\* entries, the context of the next stage
StartPrepare(w, i, s) ==
    LET nx == NextOf(w.len, i)
        w1 == [w EXCEPT !.cmd[i].Stderr = <<"stdErr">> \o @,
                        !.cmd[i].ctx = s,
                        !.cmd[i].Env = @ \o << <<"TRACE_ID", s>>, <<"SPAN_ID", s>> >>]
    IN IF nx # 0 THEN [w1 EXCEPT !.cmd[nx].ctx = s] ELSE w1

CmdStartBody(w, i, orc) ==
    LET s == Len(w.spans) + 1
        w1 == StartPrepare(TracerStart(w, i), i, s)
        r == OsStart(w1, i, orc)
    IN IF r.ret # Nil
       THEN [w |-> SpanEnd(SpanSetStatus(SpanRecordError(r.w, s, r.ret), s, "Error", r.ret), s),
             ret |-> r.ret]
       ELSE [w |-> SpanSetStatus(r.w, s, "Ok", Nil), ret |-> Nil]

\* Cmd.Start with the guard of exec.go:65 placed after the span is opened
CmdStart_GuardAfterSpan(w, i, orc) ==
    LET w0 == Emit(w, Ev("Start", i, 0, 0, Nil))
        r == IF w0.cmd[i].Process
             THEN [w |-> TracerStart(w0, i), ret |-> ErrAlreadyStarted]
             ELSE CmdStartBody(w0, i, orc)
    IN [w |-> Emit(r.w, Ev("Start.ret", i, 0, 0, r.ret)), ret |-> r.ret]

\* Cmd.Start without the guard of exec.go:65
CmdStart_NoGuard(w, i, orc) ==
    LET r == CmdStartBody(Emit(w, Ev("Start", i, 0, 0, Nil)), i, orc)
    IN [w |-> Emit(r.w, Ev("Start.ret", i, 0, 0, r.ret)), ret |-> r.ret]

CmdStart(w, i, orc) ==
    LET w0 == Emit(w, Ev("Start", i, 0, 0, Nil))
        r == IF w0.cmd[i].Process
             THEN [w |-> w0, ret |-> ErrAlreadyStarted]
             ELSE CmdStartBody(w0, i, orc)
    IN [w |-> Emit(r.w, Ev("Start.ret", i, 0, 0, r.ret)), ret |-> r.ret]

\* ---------------------------------------------------------------- Cmd.Wait
\* exec.go:133-146, the first deferred function: runs last, on every return
\* that follows the two guards
WaitDeferSpan(w, i, s, err) ==
    LET w1 == SpanSetExitCode(w, s, ExitCodeOf(w.cmd[i].ProcessState))
        w2 == IF err = Nil
              THEN SpanSetStatus(w1, s, "Ok", Nil)
              ELSE SpanSetStatus(SpanRecordError(w1, s, err), s, "Error", err)
    IN SpanEnd(w2, s)

\* exec.go:167, defer c.closer.Close(): the result of Close is dropped
WaitDeferClose(w, i) ==
    Emit([w EXCEPT !.closed[i] = @ + 1], Ev("closer.Close", i, 0, 0, Nil))

\* exec.go:169-180: the stage's own wait and the log event of its failure
WaitOwn(w, i, orc) ==
    LET r == OsWait(w, i, orc)
    IN IF r.ret # Nil
       THEN [w |-> Emit(r.w, Ev("logger.Debug", i, 0, ExitCodeOf(r.w.cmd[i].ProcessState), r.ret)),
             ret |-> r.ret]
       ELSE r

\* the status message of exec.go:161: the command of the failed stage and its
\* exit code
ExitedWithCode(i, code) == Err("exited with code", i, code)

RECURSIVE CmdWait(_, _, _)

\* the second deferred function returning nil whatever the next stage's Wait
\* returned
WaitDeferNext_DropsNextError(w, i, err, orc) ==
    LET nx == NextOf(w.len, i)
    IN IF err = Nil
       THEN [w |-> CmdWait(w, nx, orc).w, ret |-> Nil]
       ELSE LET nextSpan == w.cmd[nx].ctx
                msg == ExitedWithCode(i, ExitCodeOf(w.cmd[i].ProcessState))
            IN [w |-> SpanEnd(SpanSetStatus(w, nextSpan, "Error", msg), nextSpan),
                ret |-> err]

\* the second deferred function waiting on the next stage also when this
\* stage failed
WaitDeferNext_WaitsAnyway(w, i, err, orc) ==
    LET nx == NextOf(w.len, i)
        r == CmdWait(w, nx, orc)
    IN [w |-> r.w, ret |-> IF err = Nil THEN r.ret ELSE err]

\* exec.go:155-164, the second deferred function (registered only when there is
\* a next stage and it was started)
WaitDeferNext(w, i, err, orc) ==
    LET nx == NextOf(w.len, i)
    IN IF err = Nil
       THEN CmdWait(w, nx, orc)
       ELSE LET nextSpan == w.cmd[nx].ctx
                msg == ExitedWithCode(i, ExitCodeOf(w.cmd[i].ProcessState))
            IN [w |-> SpanEnd(SpanSetStatus(w, nextSpan, "Error", msg), nextSpan),
                ret |-> err]

\* Wait starting the next stage only once the stage's own wait has succeeded
WaitBody_StartsNextAfterOwnWait(w, i, orc) ==
    LET nx == NextOf(w.len, i)
        span == w.cmd[i].ctx
        ro == WaitOwn(w, i, orc)
        wc == WaitDeferClose(ro.w, i)
    IN IF nx = 0 \/ ro.ret # Nil
       THEN [w |-> WaitDeferSpan(wc, i, span, ro.ret), ret |-> ro.ret]
       ELSE LET rs == CmdStart(wc, nx, orc)
                rn == IF rs.ret # Nil THEN rs ELSE CmdWait(rs.w, nx, orc)
            IN [w |-> WaitDeferSpan(rn.w, i, span, rn.ret), ret |-> rn.ret]

\* Wait closing the write end of the pipe after the next stage's Wait
WaitBody_ClosesAfterNextWait(w, i, orc) ==
    LET nx == NextOf(w.len, i)
        span == w.cmd[i].ctx
        rs == IF nx # 0 THEN CmdStart(w, nx, orc) ELSE [w |-> w, ret |-> Nil]
    IN IF rs.ret # Nil
       THEN [w |-> WaitDeferSpan(SpanEnd(rs.w, span), i, span, rs.ret), ret |-> rs.ret]
       ELSE LET ro == WaitOwn(rs.w, i, orc)
                rn == IF nx # 0 THEN WaitDeferNext(ro.w, i, ro.ret, orc)
                      ELSE [w |-> ro.w, ret |-> ro.ret]
                wc == WaitDeferClose(rn.w, i)
            IN [w |-> WaitDeferSpan(wc, i, span, rn.ret), ret |-> rn.ret]

\* exec.go:132-181, after the guards; the deferred functions run in reverse
\* order of registration: Close, then the next stage, then the span
WaitBody(w, i, orc) ==
    LET nx == NextOf(w.len, i)
        span == w.cmd[i].ctx
        rs == IF nx # 0 THEN CmdStart(w, nx, orc) ELSE [w |-> w, ret |-> Nil]
    IN IF rs.ret # Nil
       THEN [w |-> WaitDeferSpan(SpanEnd(rs.w, span), i, span, rs.ret), ret |-> rs.ret]
       ELSE LET ro == WaitOwn(rs.w, i, orc)
                wc == WaitDeferClose(ro.w, i)
                rn == IF nx # 0 THEN WaitDeferNext(wc, i, ro.ret, orc)
                      ELSE [w |-> wc, ret |-> ro.ret]
            IN [w |-> WaitDeferSpan(rn.w, i, span, rn.ret), ret |-> rn.ret]

\* Cmd.Wait without the guard of exec.go:128
CmdWait_NoWaitedGuard(w, i, orc) ==
    LET w0 == Emit(w, Ev("Wait", i, 0, 0, Nil))
        r == IF ~w0.cmd[i].Process
             THEN [w |-> w0, ret |-> ErrNotStarted]
             ELSE WaitBody(w0, i, orc)
    IN [w |-> Emit(r.w, Ev("Wait.ret", i, 0, 0, r.ret)), ret |-> r.ret]

CmdWait(w, i, orc) ==
    LET w0 == Emit(w, Ev("Wait", i, 0, 0, Nil))
        r == IF ~w0.cmd[i].Process
             THEN [w |-> w0, ret |-> ErrNotStarted]
             ELSE IF w0.cmd[i].ProcessState # <<>>
             THEN [w |-> w0, ret |-> ErrAlreadyWaited]
             ELSE WaitBody(w0, i, orc)
    IN [w |-> Emit(r.w, Ev("Wait.ret", i, 0, 0, r.ret)), ret |-> r.ret]

\* ---------------------------------------------------------------- Cmd.Run
\* Cmd.Run that waits whatever Start returned
CmdRun_AlwaysWait(w, i, orc) ==
    LET w0 == Emit(w, Ev("Run", i, 0, 0, Nil))
        rs == CmdStart(w0, i, orc)
    IN CmdWait(rs.w, i, orc)

CmdRun(w, i, orc) ==
    LET w0 == Emit(w, Ev("Run", i, 0, 0, Nil))
        rs == CmdStart(w0, i, orc)
    IN IF rs.ret # Nil THEN rs ELSE CmdWait(rs.w, i, orc)

\* ---------------------------------------------------------------- construction
RECURSIVE setupCmd(_, _, _)
\* the wiring pass stopping, with no error, at a stage whose next stage carries
\* a construction error
setupCmd_StopsAtSkippedStage(c, len, i) ==
    IF c[i].Err # Nil
    THEN [cmd |-> c, ret |-> c[i].Err]
    ELSE IF NextOf(len, i) # 0 /\ c[NextOf(len, i)].Err = Nil
    THEN LET nx == NextOf(len, i)
         IN setupCmd([c EXCEPT ![nx].Stdout = c[i].Stdout,
                               ![nx].Stdin = PipeIn(i),
                               ![nx].Stderr = c[i].Stderr,
                               ![nx].Env = c[i].Env,
                               ![nx].tracer = c[i].tracer,
                               ![nx].logger = c[i].logger,
                               ![i].Stdout = PipeOut(i),
                               ![i].closer = PipeOut(i)], len, nx)
    ELSE [cmd |-> c, ret |-> Nil]

\* the wiring pass binding the stage's Stdout to the pipe before it copies it
\* to the next stage
setupCmd_PipeBeforeCopy(c, len, i) ==
    IF c[i].Err # Nil
    THEN [cmd |-> c, ret |-> c[i].Err]
    ELSE IF NextOf(len, i) # 0
    THEN LET nx == NextOf(len, i)
             c1 == IF c[nx].Err = Nil
                   THEN [c EXCEPT ![nx].Stdout = PipeOut(i),
                                  ![nx].Stdin = PipeIn(i),
                                  ![nx].Stderr = c[i].Stderr,
                                  ![nx].Env = c[i].Env,
                                  ![nx].tracer = c[i].tracer,
                                  ![nx].logger = c[i].logger,
                                  ![i].Stdout = PipeOut(i),
                                  ![i].closer = PipeOut(i)]
                   ELSE c
         IN setupCmd(c1, len, nx)
    ELSE [cmd |-> c, ret |-> Nil]

\* the wiring pass leaving the next stage its own logger
setupCmd_KeepsNextLogger(c, len, i) ==
    IF c[i].Err # Nil
    THEN [cmd |-> c, ret |-> c[i].Err]
    ELSE IF NextOf(len, i) # 0
    THEN LET nx == NextOf(len, i)
             c1 == IF c[nx].Err = Nil
                   THEN [c EXCEPT ![nx].Stdout = c[i].Stdout,
                                  ![nx].Stdin = PipeIn(i),
                                  ![nx].Stderr = c[i].Stderr,
                                  ![nx].Env = c[i].Env,
                                  ![nx].tracer = c[i].tracer,
                                  ![i].Stdout = PipeOut(i),
                                  ![i].closer = PipeOut(i)]
                   ELSE c
         IN setupCmd(c1, len, nx)
    ELSE [cmd |-> c, ret |-> Nil]

\* the wiring pass wiring the next stage whatever its Err
setupCmd_WiresUnresolved(c, len, i) ==
    IF c[i].Err # Nil
    THEN [cmd |-> c, ret |-> c[i].Err]
    ELSE IF NextOf(len, i) # 0
    THEN LET nx == NextOf(len, i)
             c1 == [c EXCEPT ![nx].Stdout = c[i].Stdout,
                             ![nx].Stdin = PipeIn(i),
                             ![nx].Stderr = c[i].Stderr,
                             ![nx].Env = c[i].Env,
                             ![nx].tracer = c[i].tracer,
                             ![nx].logger = c[i].logger,
                             ![i].Stdout = PipeOut(i),
                             ![i].closer = PipeOut(i)]
         IN setupCmd(c1, len, nx)
    ELSE [cmd |-> c, ret |-> Nil]

\* exec.go:256-282 on stage i of a chain of len stages: the chain as wired, and
\* the error returned
setupCmd(c, len, i) ==
    IF c[i].Err # Nil
    THEN [cmd |-> c, ret |-> c[i].Err]
    ELSE IF NextOf(len, i) # 0
    THEN LET nx == NextOf(len, i)
             c1 == IF c[nx].Err = Nil
                   THEN [c EXCEPT ![nx].Stdout = c[i].Stdout,
                                  ![nx].Stdin = PipeIn(i),
                                  ![nx].Stderr = c[i].Stderr,
                                  ![nx].Env = c[i].Env,
                                  ![nx].tracer = c[i].tracer,
                                  ![nx].logger = c[i].logger,
                                  ![i].Stdout = PipeOut(i),
                                  ![i].closer = PipeOut(i)]
                   ELSE c
         IN setupCmd(c1, len, nx)
    ELSE [cmd |-> c, ret |-> Nil]

\* ---------------------------------------------------------------- options
Option(kind, arg) == [opt |-> kind, arg |-> arg]

\* exec.go:307-311: the path, then the arguments
WithArgs(c, args) == [c EXCEPT !.Args = <<"path">> \o args]
\* exec.go:337-341
WithStdout(c, out) == [c EXCEPT !.Stdout = out]
\* exec.go:344-348
WithStderr(c, err) == [c EXCEPT !.Stderr = err]
\* exec.go:351-355
WithTracer(c, tracer) == [c EXCEPT !.tracer = tracer]
\* exec.go:358-362
WithLogger(c, logger) == [c EXCEPT !.logger = logger]
\* the option installing the transform of the argument list for telemetry
WithArgsRedaction(c, f) == [c EXCEPT !.redact = f]

\* a chain under construction is the Cmd values allocated so far (used of
\* them), linked by Next from the head, which is the first
RECURSIVE Pipe(_, _, _)
\* Pipe setting the Next of the Cmd it is applied to, whatever it was
Pipe_ReplacesNext(b, i, o) ==
    LET k == b.used + 1
        c == WithArgs(NewCmd(o.name, o.resolves), <<"arg">>)
    IN [cmd |-> [b.cmd EXCEPT ![k] = [c EXCEPT !.Err = setupCmd([b.cmd EXCEPT ![k] = c], k, k).ret],
                              ![i].Next = k],
        used |-> k]

\* exec.go:296-304, the option Pipe(name, args...) applied to the Cmd at i: a
\* new Cmd, built by a CommandContext of its own, linked after the last one
Pipe(b, i, o) ==
    IF b.cmd[i].Next = 0
    THEN LET k == b.used + 1
             c == WithArgs(NewCmd(o.name, o.resolves), <<"arg">>)
         IN [cmd |-> [b.cmd EXCEPT ![k] = [c EXCEPT !.Err = setupCmd([b.cmd EXCEPT ![k] = c], k, k).ret],
                                   ![i].Next = k],
             used |-> k]
    ELSE Pipe(b, b.cmd[i].Next, o)

\* exec.go:290-292: an option applied to the head
applyOption(b, o) ==
    IF o.opt = "Pipe" THEN Pipe(b, 1, o.arg)
    ELSE [b EXCEPT !.cmd[1] =
            IF o.opt = "WithArgs" THEN WithArgs(@, o.arg)
            ELSE IF o.opt = "WithStdout" THEN WithStdout(@, o.arg)
            ELSE IF o.opt = "WithStderr" THEN WithStderr(@, o.arg)
            ELSE IF o.opt = "WithTracer" THEN WithTracer(@, o.arg)
            ELSE IF o.opt = "WithLogger" THEN WithLogger(@, o.arg)
            ELSE WithArgsRedaction(@, o.arg)]

\* exec.go:226-228: the options, in the order given
RECURSIVE applyOptions(_, _, _)
applyOptions(b, opts, j) ==
    IF j > Len(opts) THEN b ELSE applyOptions(applyOption(b, opts[j]), opts, j + 1)

\* the options of the callers in the tests: the arguments, sinks, tracer,
\* logger and redaction of the head, placed after pos - 1 of the len - 1 Pipe
\* options, one per further stage, whose names resolve or do not
HeadOptions(red) ==
    << Option("WithArgs", <<"secret">>),
       Option("WithStdout", CallerStdout),
       Option("WithStderr", <<"callerStderr">>),
       Option("WithTracer", "tracer"),
       Option("WithLogger", "logger"),
       Option("WithArgsRedaction", red) >>

PipeOptions(from, to, resolves) ==
    [j \in 1..(to - from + 1) |->
        Option("Pipe", [name |-> from + j - 1, resolves |-> resolves[from + j - 1]])]

Options(len, resolves, pos, red) ==
    PipeOptions(2, pos, resolves) \o HeadOptions(red) \o PipeOptions(pos + 1, len, resolves)

\* exec.go:213-233: the Cmd of the name, the options, and then the wiring
\* pass, whose result becomes the head's Err
CommandContext(resolves, opts) ==
    LET b0 == [cmd |-> [k \in Stages |-> NewCmd(k, k # 1 \/ resolves)], used |-> 1]
        b == applyOptions(b0, opts, 1)
        r == setupCmd(b.cmd, b.used, 1)
    IN [r.cmd EXCEPT ![1].Err = r.ret]

\* ---------------------------------------------------------------- actions
Call(op, stage) == [op |-> op, stage |-> stage]

EmptyChain == [k \in Stages |-> NewCmd(k, TRUE)]

\* no Run is being followed step by step
Control(stage, step, failed) == [stage |-> stage, step |-> step, failed |-> failed]
Process(st, code) == [st |-> st, code |-> code]
FlowIdle ==
    /\ ctl = Control(0, "idle", FALSE)
    /\ proc = [k \in Stages |-> Process("created", 0)]
    /\ left = 0
    /\ stdinBuf = [k \in Stages |-> 0]
    /\ stdoutBuf = [k \in Stages |-> 0]
    /\ pipeClosed = [k \in Stages |-> FALSE]
    /\ pipeCap = 1

Init ==
    /\ built = FALSE
    /\ n = 0
    /\ cmd = EmptyChain
    /\ spans = <<>>
    /\ closed = [k \in Stages |-> 0]
    /\ spawned = [k \in Stages |-> 0]
    /\ waited = [k \in Stages |-> 0]
    /\ argv = [k \in Stages |-> <<>>]
    /\ trace = <<>>
    /\ lastCall = Call("none", 0)
    /\ ret = Nil
    /\ calls = 0
    /\ FlowIdle

\* the chains a caller can ask for: len stages, each with a name that resolves
\* or does not
Resolutions(len) == { r \in [Stages -> BOOLEAN] : \A k \in Stages : k > len => r[k] }

\* what a call leaves behind
Returns(op, i, r) ==
    /\ cmd' = r.w.cmd
    /\ spans' = r.w.spans
    /\ closed' = r.w.closed
    /\ spawned' = r.w.spawned
    /\ waited' = r.w.waited
    /\ argv' = r.w.argv
    /\ trace' = r.w.trace
    /\ lastCall' = Call(op, i)
    /\ ret' = r.ret
    /\ calls' = calls + 1
    /\ UNCHANGED flowVars

\* exec.Command / exec.CommandContext
Command ==
    /\ ~built
    /\ \E len \in Stages : \E res \in Resolutions(len) : \E pos \in 1..len : \E red \in Redactions :
         /\ n' = len
         /\ cmd' = CommandContext(res[1], Options(len, res, pos, red))
    /\ built' = TRUE
    /\ lastCall' = Call("Command", 1)
    /\ UNCHANGED <<spans, closed, spawned, waited, argv, trace, ret, calls>>
    /\ UNCHANGED flowVars

\* exec.Run calling the head's Run whatever Err the construction left
RunWithContextResult_NoErrCheck(len, res, pos, red, orc) ==
    LET c == CommandContext(res[1], Options(len, res, pos, red))
        w == [World EXCEPT !.len = len, !.cmd = c]
    IN CmdRun(w, 1, orc)

\* exec.Run / exec.RunWithContext (exec.go:245-254): the construction, then
\* Err if it is set, else the head's Run
RunWithContextResult(len, res, pos, red, orc) ==
    LET c == CommandContext(res[1], Options(len, res, pos, red))
        w == [World EXCEPT !.len = len, !.cmd = c]
    IN IF c[1].Err # Nil
       THEN [w |-> Emit(w, Ev("logger.Debug", 1, 0, 0, c[1].Err)), ret |-> c[1].Err]
       ELSE CmdRun(w, 1, orc)

RunWithContext ==
    /\ ~built
    /\ \E len \in Stages : \E res \in Resolutions(len) : \E pos \in 1..len : \E red \in Redactions :
       \E orc \in Oracles(1..len, 1..len) :
         /\ n' = len
         /\ Returns("exec.Run", 1, RunWithContextResult(len, res, pos, red, orc))
    /\ built' = TRUE

\* the methods, on any stage of the chain (Next is an exported field)
Start(i) ==
    /\ built /\ i \in 1..n /\ calls < MaxCalls
    /\ \E orc \in Oracles({i}, {}) : Returns("Start", i, CmdStart(World, i, orc))
    /\ UNCHANGED <<built, n>>

Wait(i) ==
    /\ built /\ i \in 1..n /\ calls < MaxCalls
    /\ \E orc \in Oracles((i+1)..n, i..n) : Returns("Wait", i, CmdWait(World, i, orc))
    /\ UNCHANGED <<built, n>>

Run(i) ==
    /\ built /\ i \in 1..n /\ calls < MaxCalls
    /\ \E orc \in Oracles(i..n, i..n) : Returns("Run", i, CmdRun(World, i, orc))
    /\ UNCHANGED <<built, n>>

Next ==
    \/ Command
    \/ RunWithContext
    \/ \E i \in Stages : Start(i)
    \/ \E i \in Stages : Wait(i)
    \/ \E i \in Stages : Run(i)

Spec == Init /\ [][Next]_vars

\* ---------------------------------------------------------------- one Run, step by step
\* Run on the head of a chain whose stages all resolve and spawn, split where
\* the calling goroutine blocks.  A process other than the head copies its
\* stdin to its stdout and exits at the end of its input; the head's process
\* writes its items and exits; each exits with any code.  os/exec joins a
\* process to a Stdin or Stdout that is not a file by a pipe of the operating
\* system and a copying goroutine, started with the process at c.Cmd.Start.
FlowInit ==
    /\ \E len \in Stages :
         /\ n = len
         /\ cmd = CommandContext(TRUE, Options(len, [k \in Stages |-> TRUE], 1, "mask"))
    /\ built = TRUE
    /\ spans = <<>>
    /\ closed = [k \in Stages |-> 0]
    /\ spawned = [k \in Stages |-> 0]
    /\ waited = [k \in Stages |-> 0]
    /\ argv = [k \in Stages |-> <<>>]
    /\ trace = <<>>
    /\ lastCall = Call("Command", 1)
    /\ ret = Nil
    /\ calls = 0
    /\ ctl = Control(1, "Start", FALSE)
    /\ proc = [k \in Stages |-> Process("created", 0)]
    /\ left \in 0..MaxData
    /\ stdinBuf = [k \in Stages |-> 0]
    /\ stdoutBuf = [k \in Stages |-> 0]
    /\ pipeClosed = [k \in Stages |-> FALSE]
    /\ pipeCap \in 1..MaxPipeCap

\* exec.go:196, 93: Run starts the head
FlowStart ==
    /\ ctl = Control(1, "Start", FALSE)
    /\ proc' = [proc EXCEPT ![1] = Process("running", 0)]
    /\ ctl' = Control(1, "Wait", FALSE)
    /\ UNCHANGED <<left, stdinBuf, stdoutBuf, pipeClosed, pipeCap, callVars>>

\* exec.go:148-153: Wait of stage k starts the next stage, if there is one
FlowStartNext(k) ==
    /\ ctl = Control(k, "Wait", FALSE)
    /\ proc' = IF NextOf(n, k) # 0
               THEN [proc EXCEPT ![NextOf(n, k)] = Process("running", 0)]
               ELSE proc
    /\ ctl' = Control(k, "Cmd.Wait", FALSE)
    /\ UNCHANGED <<left, stdinBuf, stdoutBuf, pipeClosed, pipeCap, callVars>>

\* exec.go:169: c.Cmd.Wait returns once the process has exited and the
\* goroutine copying its stdout has copied everything
FlowOwnWait(k) ==
    /\ ctl = Control(k, "Cmd.Wait", FALSE)
    /\ proc[k].st = "exited"
    /\ stdoutBuf[k] = 0
    /\ ctl' = Control(k, "closer.Close", proc[k].code # 0)
    /\ UNCHANGED <<proc, left, stdinBuf, stdoutBuf, pipeClosed, pipeCap, callVars>>

\* exec.go:167, 155-164: the write end is closed; then the Wait of the next
\* stage if this stage succeeded and has one, else the return
FlowClose(k) ==
    /\ ctl.stage = k /\ ctl.step = "closer.Close"
    /\ pipeClosed' = [pipeClosed EXCEPT ![k] = TRUE]
    /\ ctl' = IF NextOf(n, k) # 0 /\ ~ctl.failed
              THEN Control(NextOf(n, k), "Wait", FALSE)
              ELSE Control(k, "done", ctl.failed)
    /\ UNCHANGED <<proc, left, stdinBuf, stdoutBuf, pipeCap, callVars>>

\* the head's process writes an item to its stdout, or exits having written all
FlowProduce ==
    /\ proc[1].st = "running"
    /\ left > 0
    /\ stdoutBuf[1] < pipeCap
    /\ left' = left - 1
    /\ stdoutBuf' = [stdoutBuf EXCEPT ![1] = @ + 1]
    /\ UNCHANGED <<ctl, proc, stdinBuf, pipeClosed, pipeCap, callVars>>

\* a process other than the head copies an item from its stdin to its stdout
FlowFilter(k) ==
    /\ k \in 2..n
    /\ proc[k].st = "running"
    /\ stdinBuf[k] > 0
    /\ stdoutBuf[k] < pipeCap
    /\ stdinBuf' = [stdinBuf EXCEPT ![k] = @ - 1]
    /\ stdoutBuf' = [stdoutBuf EXCEPT ![k] = @ + 1]
    /\ UNCHANGED <<ctl, proc, left, pipeClosed, pipeCap, callVars>>

\* a process exits: the head when it has written everything, another process
\* at the end of its input, which is the write end of the io.Pipe closed and
\* nothing left on the way
FlowExit(k) ==
    /\ k \in 1..n
    /\ proc[k].st = "running"
    /\ IF k = 1 THEN left = 0
       ELSE stdinBuf[k] = 0 /\ pipeClosed[k - 1] /\ stdoutBuf[k - 1] = 0
    /\ \E code \in ExitCodes : proc' = [proc EXCEPT ![k] = Process("exited", code)]
    /\ UNCHANGED <<ctl, left, stdinBuf, stdoutBuf, pipeClosed, pipeCap, callVars>>

\* the goroutines copying the stdout of process k: into the io.Pipe, whose
\* Write returns when the goroutine copying to the stdin of the next process
\* has read it (exec.go:265, io.Pipe has no buffer), or into the caller's sink
FlowCopy(k) ==
    /\ k \in 1..n
    /\ stdoutBuf[k] > 0
    /\ IF NextOf(n, k) # 0
       THEN /\ proc[NextOf(n, k)].st # "created"
            /\ stdinBuf[NextOf(n, k)] < pipeCap
            /\ stdinBuf' = [stdinBuf EXCEPT ![NextOf(n, k)] = @ + 1]
       ELSE UNCHANGED stdinBuf
    /\ stdoutBuf' = [stdoutBuf EXCEPT ![k] = @ - 1]
    /\ UNCHANGED <<ctl, proc, left, pipeClosed, pipeCap, callVars>>

FlowNext ==
    \/ FlowStart
    \/ \E k \in Stages : FlowStartNext(k)
    \/ \E k \in Stages : FlowOwnWait(k)
    \/ \E k \in Stages : FlowClose(k)
    \/ FlowProduce
    \/ \E k \in Stages : FlowFilter(k)
    \/ \E k \in Stages : FlowExit(k)
    \/ \E k \in Stages : FlowCopy(k)

FlowSpec == FlowInit /\ [][FlowNext]_vars

\* Run has returned
FlowDone == ctl.step = "done"

\* ---------------------------------------------------------------- properties
\* a step that is the exported call op on stage i
IsCall(op, i) == calls' = calls + 1 /\ lastCall' = Call(op, i)

\* nothing but the record of the call itself changes
NothingElseHappens ==
    /\ cmd' = cmd
    /\ spans' = spans
    /\ closed' = closed
    /\ spawned' = spawned
    /\ waited' = waited
    /\ argv' = argv

\* the positions of the events named ev of stage i in a trace
EventsOf(tr, ev, i) == { k \in 1..Len(tr) : tr[k].ev = ev /\ tr[k].stage = i }

\* C1: Start on a descriptor that already has a process handle returns
\* "exec: already started" and changes nothing: no span is opened, and no field
\* of any stage (Env, Stderr, ctx, Process, the next stage) changes.
C1_StartAlreadyStarted ==
    [][\A i \in Stages :
         (IsCall("Start", i) /\ cmd[i].Process)
            => /\ ret' = ErrAlreadyStarted
               /\ NothingElseHappens
               /\ EventsOf(trace', "tracer.Start", i) = {}]_vars

C1_Witness ==
    /\ lastCall.op = "Start"
    /\ ret = ErrAlreadyStarted
    /\ cmd[lastCall.stage].Process
    /\ spawned[lastCall.stage] = 1

\* C2: Wait without a process handle returns "exec: not started"; Wait with
\* exit information returns "exec: Wait was already called"; no state satisfies
\* both conditions; in both cases nothing else happens.
WaitGuardsDisjoint == \A i \in Stages : ~(~cmd[i].Process /\ cmd[i].ProcessState # <<>>)

C2_WaitMisuse ==
    [][/\ WaitGuardsDisjoint /\ WaitGuardsDisjoint'
       /\ \A i \in Stages :
            /\ (IsCall("Wait", i) /\ ~cmd[i].Process)
                  => (ret' = ErrNotStarted /\ NothingElseHappens /\ Len(trace') = 2)
            /\ (IsCall("Wait", i) /\ cmd[i].ProcessState # <<>>)
                  => (ret' = ErrAlreadyWaited /\ NothingElseHappens /\ Len(trace') = 2)]_vars

C2_Witness ==
    /\ lastCall.op = "Wait"
    /\ ret = ErrAlreadyWaited
    /\ cmd[lastCall.stage].ProcessState # <<>>
    /\ \E k \in 1..n : ~cmd[k].Process

\* C3: Run is Start followed by Wait: if Start returns an error, Run makes no
\* call of Wait and returns that error; otherwise Run returns what its Wait
\* call returns.
RunIsStartThenWait(tr, i, result) ==
    /\ Len(tr) >= 3
    /\ tr[1].ev = "Run" /\ tr[1].stage = i
    /\ tr[2].ev = "Start" /\ tr[2].stage = i
    /\ EventsOf(tr, "Start.ret", i) # {}
    /\ LET k == CHOOSE x \in EventsOf(tr, "Start.ret", i) :
                   \A y \in EventsOf(tr, "Start.ret", i) : x <= y
       IN IF tr[k].err # Nil
          THEN /\ k = Len(tr)
               /\ result = tr[k].err
               /\ \A j \in 1..Len(tr) : tr[j].ev # "Wait" /\ tr[j].ev # "Cmd.Wait"
          ELSE /\ k < Len(tr)
               /\ tr[k + 1].ev = "Wait" /\ tr[k + 1].stage = i
               /\ EventsOf(tr, "Wait", i) = {k + 1}
               /\ tr[Len(tr)].ev = "Wait.ret" /\ tr[Len(tr)].stage = i
               /\ result = tr[Len(tr)].err

C3_RunIsStartThenWait ==
    lastCall.op = "Run" => RunIsStartThenWait(trace, lastCall.stage, ret)

C3_Witness ==
    /\ lastCall.op = "Run"
    /\ ret = ErrAlreadyStarted
    /\ cmd[lastCall.stage].Process
    /\ Len(trace) = 3

\* C4: a descriptor only moves Created -> Started -> Completed: the process
\* handle, once set, stays; the exit information, once set, stays; there is no
\* exit information without a process handle; a process is spawned at most
\* once per descriptor.
C4_LifecycleMonotonic ==
    [][\A i \in Stages :
         /\ cmd[i].Process => cmd'[i].Process
         /\ cmd[i].ProcessState # <<>> => cmd'[i].ProcessState = cmd[i].ProcessState
         /\ cmd'[i].ProcessState # <<>> => cmd'[i].Process
         /\ spawned'[i] >= spawned[i]
         /\ spawned'[i] <= 1
         /\ waited'[i] <= 1
         /\ cmd'[i].Process <=> spawned'[i] = 1]_vars

C4_Witness ==
    /\ lastCall.op = "Run"
    /\ ret = ErrAlreadyStarted
    /\ cmd[lastCall.stage].ProcessState # <<>>
    /\ \E k \in 1..n : cmd[k].Process /\ cmd[k].ProcessState = <<>>

\* ---------------------------------------------------------------- pipelines
\* the most recent call was made on the head and is op
HeadCall(ops) == lastCall.stage = 1 /\ lastCall.op \in ops

AllResolve == \A k \in 1..n : cmd[k].Path.abs

\* every Start the most recent call made, on any stage, returned nil
EveryStartSucceeded ==
    \A j \in 1..Len(trace) : trace[j].ev = "Start.ret" => trace[j].err = Nil

\* the stage's own wait (c.Cmd.Wait) ran in the most recent call and failed / succeeded
OwnWaitFailed(k) == \E e \in EventsOf(trace, "Cmd.Wait", k) : trace[e].err # Nil
OwnWaitSucceeded(k) == \E e \in EventsOf(trace, "Cmd.Wait", k) : trace[e].err = Nil
OwnWaitError(k) == trace[CHOOSE e \in EventsOf(trace, "Cmd.Wait", k) : TRUE].err

\* a Wait of stage k in the most recent call got past the two guards
WaitPassedGuards(k) ==
    \E e \in EventsOf(trace, "Wait.ret", k) :
        trace[e].err \notin {ErrNotStarted, ErrAlreadyWaited}

RunOnWholeChain == HeadCall({"Run", "exec.Run"}) /\ AllResolve /\ EveryStartSucceeded

\* C5 as claimed: for a chain whose stages all resolve and all spawn, Run on
\* the head returns nil iff every stage exits with status zero, and otherwise
\* the exit error of the first stage whose own wait failed.
C5_RunNilIffAllExitZero ==
    RunOnWholeChain =>
        /\ ret = Nil <=> \A k \in 1..n : cmd[k].ProcessState = <<0>>
        /\ ret # Nil =>
             \E k \in 1..n :
                /\ OwnWaitFailed(k)
                /\ \A j \in 1..(k - 1) : ~OwnWaitFailed(j)
                /\ ret = ExitError(k, ExitCodeOf(cmd[k].ProcessState))

\* C5 as amended: for a chain whose stages all resolve and all spawn, Run on
\* the head returns nil iff the own wait of every stage succeeds (exit status
\* zero and no error of the copying of stdin, stdout and stderr), and otherwise
\* the error, exit error or copy error, of the first stage in head-to-tail
\* order whose own wait failed.
C5_RunResult ==
    RunOnWholeChain =>
        /\ ret = Nil <=> \A k \in 1..n : OwnWaitSucceeded(k)
        /\ ret = Nil => \A k \in 1..n : cmd[k].ProcessState = <<0>>
        /\ ret # Nil =>
             \E k \in 1..n :
                /\ OwnWaitFailed(k)
                /\ \A j \in 1..(k - 1) : OwnWaitSucceeded(j)
                /\ ret = OwnWaitError(k)
                /\ ret \in {ExitError(k, ExitCodeOf(cmd[k].ProcessState)), CopyError(k)}

C5_Witness ==
    /\ RunOnWholeChain
    /\ n = 3
    /\ OwnWaitSucceeded(1)
    /\ ret = CopyError(2)

\* C6 as claimed: when Wait on the head returns after its guards, every
\* downstream stage has been started and has returned from its own Wait, or
\* has failed to start: none is left started and not waited on, none is left
\* not started.
C6_PipelineDrained ==
    (HeadCall({"Wait", "Run", "exec.Run"}) /\ WaitPassedGuards(1)) =>
        \A k \in 2..n :
            \/ cmd[k].Process /\ cmd[k].ProcessState # <<>>
            \/ \E e \in EventsOf(trace, "Start.ret", k) : trace[e].err # Nil

\* C7 as claimed: by the time the head's Wait or Run returns, every span that
\* was opened has been ended exactly once.
C7_SpansEndedExactlyOnce ==
    (HeadCall({"Wait", "Run", "exec.Run"}) /\ ret \notin {ErrNotStarted, ErrAlreadyWaited, ErrAlreadyStarted}) =>
        \A s \in 1..Len(spans) : spans[s].ended = 1

\* C8 as claimed: every Wait that gets past the guards releases the stage's
\* resource handle exactly once before it returns, whichever way it returns,
\* and the handle is never released twice.
C8_CloserReleasedExactlyOnce ==
    \A k \in 1..n :
        /\ WaitPassedGuards(k) => Cardinality(EventsOf(trace, "closer.Close", k)) = 1
        /\ closed[k] <= 1

\* C9: when a stage's own wait fails and it has a next stage, the next stage
\* has been started before, is not waited on, has its span set to error status
\* with the message naming the failed stage and its exit code and then ended,
\* and Wait returns the failed stage's error.  For A | B | C run once, with A
\* exiting zero and B exiting 1: the head's call returns B's exit error, C is
\* started and never waited on, and the three spans are each ended once.
NextMarkedFailed(k, e) ==
    LET nx == NextOf(n, k)
        s == cmd[nx].ctx
        msg == ExitedWithCode(k, trace[e].code)
    IN /\ \E a \in EventsOf(trace, "Start.ret", nx) : a < e /\ trace[a].err = Nil
       /\ cmd[nx].Process /\ cmd[nx].ProcessState = <<>>
       /\ EventsOf(trace, "Wait", nx) = {} /\ EventsOf(trace, "Cmd.Wait", nx) = {}
       /\ s # 0 /\ spans[s].stage = nx
       /\ spans[s].status = "Error" /\ spans[s].msg = msg /\ spans[s].ended = 1
       /\ \E j \in (e + 1)..(Len(trace) - 1) :
            /\ trace[j].ev = "span.SetStatus.Error" /\ trace[j].span = s /\ trace[j].err = msg
            /\ trace[j + 1].ev = "span.End" /\ trace[j + 1].span = s
       /\ \E r \in EventsOf(trace, "Wait.ret", k) : r > e /\ trace[r].err = trace[e].err

Unresolved == { k \in 1..n : ~cmd[k].Path.abs }
FirstUnresolved == CHOOSE k \in Unresolved : \A j \in Unresolved : k <= j

C10_DeferredNotFound ==
    /\ lastCall.op # "none" => built /\ n >= 1
    /\ built =>
        /\ cmd[1].Err = IF Unresolved = {} THEN Nil ELSE ErrNotFound(FirstUnresolved)
        /\ (Unresolved # {} /\ HeadCall({"Start", "Run", "exec.Run"})) =>
              /\ ret = ErrNotFound(FirstUnresolved)
              /\ \A j \in 1..Len(trace) : trace[j].ev = "Cmd.Start" => trace[j].err # Nil
              /\ spawned[1] = 0 /\ ~cmd[1].Process

C10_Witness ==
    /\ built /\ n = 3
    /\ Unresolved = {2, 3}
    /\ HeadCall({"Run"})
    /\ ret = ErrNotFound(2)

\* the errors of the guards of Start and Wait
MisuseErrors == {ErrAlreadyStarted, ErrNotStarted, ErrAlreadyWaited}

\* the event named ev of stage k, with an error satisfying the kinds given,
\* is in the trace
ReturnedFrom(ev, k, errs) == \E e \in EventsOf(trace, ev, k) : trace[e].err \in errs

StartFailedNotFound(k) ==
    \E e \in EventsOf(trace, "Start.ret", k) : trace[e].err.kind = "ErrNotFound"

\* C11 (as stated): a call of Start, Wait or Run that fails because the name
\* of the stage did not resolve, or for misuse, opens no span for that stage.
C11_NoSpanOnFailure ==
    \A k \in Stages :
        (\/ StartFailedNotFound(k)
         \/ ReturnedFrom("Start.ret", k, {ErrAlreadyStarted})
         \/ ReturnedFrom("Wait.ret", k, {ErrNotStarted, ErrAlreadyWaited}))
           => EventsOf(trace, "tracer.Start", k) = {}

\* C11 (amended): a call of Start, Wait or Run that fails for misuse opens no
\* span for that stage, and exec.Run returning the construction error opens no
\* span at all; but Start on a Cmd carrying a construction error opens one span
\* for that stage, records the error on it, sets its status to Error and ends
\* it once.
C11_NoSpanOnMisuse ==
    /\ \A k \in Stages :
         (\/ ReturnedFrom("Start.ret", k, {ErrAlreadyStarted})
          \/ ReturnedFrom("Wait.ret", k, {ErrNotStarted, ErrAlreadyWaited}))
            => EventsOf(trace, "tracer.Start", k) = {}
    /\ (lastCall.op = "exec.Run" /\ cmd[1].Err # Nil)
            => (ret = cmd[1].Err /\ spans = <<>>)
    /\ \A k \in Stages :
         StartFailedNotFound(k)
            => /\ Cardinality(EventsOf(trace, "tracer.Start", k)) = 1
               /\ LET s == trace[CHOOSE e \in EventsOf(trace, "tracer.Start", k) : TRUE].span
                  IN /\ spans[s].stage = k
                     /\ spans[s].ended = 1
                     /\ spans[s].status = "Error"
                     /\ spans[s].errors = <<cmd[k].Err>>

C11_Witness ==
    /\ lastCall.op = "Start"
    /\ ret.kind = "ErrNotFound"
    /\ spans # <<>>
    /\ spans[Len(spans)].stage = lastCall.stage
    /\ spans[Len(spans)].ended = 1

\* the names of the Cmd values met following Next from the one at i, at most
\* fuel of them
RECURSIVE ChainNames(_, _, _)
ChainNames(c, i, fuel) ==
    IF i = 0 \/ fuel = 0 THEN <<>>
    ELSE <<c[i].Path.name>> \o ChainNames(c, c[i].Next, fuel - 1)

\* C12: a construction with len - 1 Pipe options yields a chain of exactly len
\* stages, in the order of the options: each Pipe adds one stage after the
\* tail, none replaces or drops a stage, and the chain has no cycle.
C12_PipeAppendsAtTail ==
    built => /\ ChainNames(cmd, 1, MaxStages + 1) = [k \in 1..n |-> k]
             /\ \A i \in 1..n : cmd[i].Next = NextOf(n, i)

C12_Witness ==
    /\ built
    /\ n = 3
    /\ ChainNames(cmd, 1, 4) = <<1, 2, 3>>
    /\ cmd[3].Next = 0

\* C13: after the construction of a chain whose stages all resolved, the
\* Stdout of each stage that has a next stage is the write end of a pipe of
\* its own, the Stdin of the next stage is the read end of that pipe and the
\* stage's closer is that write end; the tail's Stdout is the sink the caller
\* set on the head; each pipe has one producer and one consumer.
C13_PipesWired ==
    (built /\ AllResolve) =>
        /\ \A i \in 1..(n - 1) :
             /\ cmd[i].Stdout = PipeOut(i)
             /\ cmd[i].closer = PipeOut(i)
             /\ cmd[i + 1].Stdin = PipeIn(i)
        /\ cmd[n].Stdout = CallerStdout
        /\ cmd[n].closer = NopCloser
        /\ cmd[1].Stdin = NoIO
        /\ \A i \in 1..(n - 1) : \A j \in 1..n :
             /\ (cmd[j].Stdout = PipeOut(i) \/ cmd[j].closer = PipeOut(i)) => j = i
             /\ cmd[j].Stdin = PipeIn(i) => j = i + 1

C13_Witness ==
    /\ built /\ AllResolve /\ n = 3
    /\ cmd[1].Stdout = PipeOut(1) /\ cmd[2].Stdin = PipeIn(1)
    /\ cmd[2].Stdout = PipeOut(2) /\ cmd[3].Stdin = PipeIn(2)
    /\ cmd[3].Stdout = CallerStdout

\* C14 (as stated): once a chain is constructed, every stage has the tracer
\* and the logger of the head, and no later call changes them.
C14_TracerLoggerOfHead ==
    built => \A k \in 1..n : cmd[k].tracer = cmd[1].tracer /\ cmd[k].logger = cmd[1].logger

\* the stages the wiring pass of the head reached and wired: all of them when
\* every stage resolved, else those before the first unresolved one
WiredStages == IF Unresolved = {} THEN 1..n ELSE 1..(FirstUnresolved - 1)

\* C14 (amended): once a chain is constructed, the head and every stage before
\* the first unresolved stage (every stage, when all resolved) have the tracer
\* and the logger set on the head, whatever the position of the options, and
\* the stages from the first unresolved one on keep the no-op tracer and
\* logger; no later Start, Wait or Run changes them.
C14_TracerLoggerShared ==
    built => \A k \in 1..n :
        IF k = 1 \/ k \in WiredStages
        THEN cmd[k].tracer = "tracer" /\ cmd[k].logger = "logger"
        ELSE cmd[k].tracer = "noop" /\ cmd[k].logger = "noop"

C14_Witness ==
    /\ n = 3 /\ calls = 2
    /\ Unresolved = {3}
    /\ cmd[2].logger = "logger" /\ cmd[2].tracer = "tracer"
    /\ cmd[3].logger = "noop" /\ cmd[3].tracer = "noop"

\* stage i and its next stage are joined by a pipe, with stdio, environment,
\* tracer and logger copied down / are left as their own constructions made them
Wired(i) ==
    /\ cmd[i].Stdout = PipeOut(i) /\ cmd[i].closer = PipeOut(i)
    /\ cmd[i + 1].Stdin = PipeIn(i)
    /\ cmd[i + 1].tracer = cmd[i].tracer /\ cmd[i + 1].logger = cmd[i].logger
Unwired(i) ==
    /\ cmd[i].Stdout # PipeOut(i) /\ cmd[i].closer = NopCloser
    /\ cmd[i + 1].Stdin = NoIO
    /\ cmd[i + 1].tracer = "noop" /\ cmd[i + 1].logger = "noop"

\* C18 (as stated): the wiring pass skips a stage that carries a construction
\* error and keeps descending, so every two consecutive resolved stages are
\* wired to each other.
C18_WiringContinuesPastSkipped ==
    built => \A i \in 1..(n - 1) : (cmd[i].Path.abs /\ cmd[i + 1].Path.abs) => Wired(i)

\* C18 (amended): the wiring pass does not wire a stage to a next stage that
\* carries a construction error, and it stops at the first stage that carries
\* one: the stages before it are wired to each other, and no stage from it on
\* is wired to its next stage, resolved or not.
C18_WiringStopsAtUnresolved ==
    built => \A i \in 1..(n - 1) :
        IF i + 1 \in WiredStages THEN Wired(i) ELSE Unwired(i)

C18_Witness ==
    /\ built /\ n = 3
    /\ Unresolved = {1}
    /\ Unwired(1) /\ Unwired(2)
    /\ cmd[3].Stdout = NoIO

StartsByPredecessor(k) == IF k = lastCall.stage THEN {} ELSE EventsOf(trace, "Start", k)

StartsHeadToTail ==
    \A s, t \in 1..Len(trace) :
        (s < t /\ trace[s].ev = "Start" /\ trace[t].ev = "Start") => trace[s].stage < trace[t].stage

\* C17 (as stated): stages are started head to tail, and a stage other than
\* the head is started once its predecessor's own wait has finished with
\* success: not while that wait is outstanding, and not if it failed.
C17_StartedAfterPredecessorSucceeded ==
    /\ StartsHeadToTail
    /\ \A k \in 2..n : \A s \in StartsByPredecessor(k) :
         \E e \in EventsOf(trace, "Cmd.Wait", k - 1) : e < s /\ trace[e].err = Nil

\* C17 (amended): within a call stages are started head to tail; a stage
\* other than the head is started by its predecessor's Wait as the first thing
\* that Wait does past its guards, before the predecessor's own wait begins,
\* and every Wait past its guards of a stage with a next stage does so; the
\* predecessor's own wait follows only if that Start succeeded, whatever its
\* own result then is.
C17_StartedBeforePredecessorWaits ==
    /\ StartsHeadToTail
    /\ \A k \in 2..n : \A s \in StartsByPredecessor(k) :
         /\ s > 1 /\ trace[s - 1].ev = "Wait" /\ trace[s - 1].stage = k - 1
         /\ \A e \in EventsOf(trace, "Cmd.Wait", k - 1) : e > s
         /\ (\E r \in EventsOf(trace, "Start.ret", k) : trace[r].err = Nil)
               <=> EventsOf(trace, "Cmd.Wait", k - 1) # {}
    /\ \A k \in 1..(n - 1) :
         WaitPassedGuards(k) => EventsOf(trace, "Start", k + 1) # {}

C17_Witness ==
    /\ lastCall = Call("Run", 1) /\ n >= 2
    /\ \E r \in EventsOf(trace, "Start.ret", 2) : trace[r].err = Nil
    /\ OwnWaitFailed(1)
    /\ cmd[2].Process /\ spawned[2] = 1

\* the Wait calls the most recent call made on a stage other than its own:
\* those made by the Wait of the stage before (exec.go:157)
WaitsByPredecessor(k) == IF k = lastCall.stage THEN {} ELSE EventsOf(trace, "Wait", k)

\* C19: in Wait of a stage that has a next stage, the write end of the pipe to
\* the next stage is closed only after the stage's own wait has completed and
\* before the next stage's Wait is called: the Wait of a consumer that its
\* predecessor calls is never entered while the write end of its input pipe is
\* still open.
C19_ClosedBetweenOwnWaitAndNextWait ==
    \A k \in 1..(n - 1) :
        /\ cmd[k + 1].Stdin = PipeIn(k) => cmd[k].closer = PipeOut(k)
        /\ \A c \in EventsOf(trace, "closer.Close", k) :
             \E e \in EventsOf(trace, "Cmd.Wait", k) : e < c
        /\ \A w \in WaitsByPredecessor(k + 1) :
             \E c \in EventsOf(trace, "closer.Close", k) : c < w

C19_Witness ==
    /\ lastCall = Call("Run", 1) /\ n >= 2 /\ ret = Nil
    /\ cmd[1].closer = PipeOut(1) /\ cmd[2].Stdin = PipeIn(1)
    /\ closed[1] = 1
    /\ \E c \in EventsOf(trace, "closer.Close", 1) : \E w \in EventsOf(trace, "Wait", 2) : c < w

\* C20: a stage other than the head that its predecessor's Wait starts has its
\* span opened in the context carrying the predecessor's span, so the span of
\* stage k+1 is a child of the span of stage k; the head's span is a child of
\* what the caller's context carried (no span).
C20_SpanChildOfPredecessor ==
    /\ \A k \in 2..n :
         StartsByPredecessor(k) # {} =>
            \A t \in EventsOf(trace, "tracer.Start", k) :
                LET sp == spans[trace[t].span]
                IN /\ sp.parent # 0
                   /\ sp.parent = cmd[k - 1].ctx
                   /\ spans[sp.parent].stage = k - 1
    /\ \A s \in 1..Len(spans) : spans[s].stage = 1 => spans[s].parent = 0

\* C15: for a chain of any length whose stages all resolve and spawn, and
\* whose processes exit at the end of their input once their output is
\* accepted, Run on the head returns: until it has, some step can be taken (no
\* stage is blocked for ever on a pipe whose consumer is not started or whose
\* write end is never closed), whatever the capacity of the pipes and the exit
\* codes.
C15_RunReturns ==
    ctl.step # "idle" => (FlowDone \/ ENABLED FlowNext)

\* the positions of the events named ev on span s in a trace
SpanEvents(tr, ev, s) == { j \in 1..Len(tr) : tr[j].ev = ev /\ tr[j].span = s }

\* C21: whenever a Wait that passed the guards returns, the stage's span has
\* been closed, and before it was closed the exit code of the stage's process
\* was attached to it and, if Wait returns an error, that error was recorded
\* on it and its status set to Error.
C21_SpanClosedAfterExitCodeAndError ==
    \A k \in 1..n :
        \A r \in EventsOf(trace, "Wait.ret", k) :
            trace[r].err \notin {ErrNotStarted, ErrAlreadyWaited} =>
                LET s == cmd[k].ctx
                    ends == { e \in SpanEvents(trace, "span.End", s) : e < r }
                IN /\ s # 0 /\ spans[s].stage = k
                   /\ ends # {}
                   /\ \A e \in ends :
                        /\ cmd[k].ProcessState # <<>>
                        /\ \E a \in SpanEvents(trace, "span.SetAttributes", s) :
                             a < e /\ trace[a].code = ExitCodeOf(cmd[k].ProcessState)
                        /\ trace[r].err # Nil =>
                             /\ \E a \in SpanEvents(trace, "span.RecordError", s) :
                                  a < e /\ trace[a].err = trace[r].err
                             /\ \E a \in SpanEvents(trace, "span.SetStatus.Error", s) : a < e

\* C22: whenever a Wait that passed the guards returns, with or without an
\* error, the stage has exit information, so that a later Wait on it returns
\* "exec: Wait was already called" and does not start the next stage again.
C22_CompletedAfterWait ==
    \A k \in 1..n : WaitPassedGuards(k) => cmd[k].ProcessState # <<>>

====
